---- MODULE Spec2Model ----
(***************************************************************************)
(* Routing and session memory of the Smart Study Assistant:                *)
(*   agents/coordinator.py      CoordinatorAgent.route_request             *)
(*   agents/study_planner.py    StudyPlannerAgent.create_plan              *)
(*   agents/question_answerer.py QuestionAnswererAgent.answer_question     *)
(*   agents/progress_tracker.py ProgressTrackerAgent.track_progress        *)
(*   run.py                     SmartStudyAssistant (session driver)       *)
(*   src/main.py                SmartStudyAssistant (the driver of the     *)
(*                              test file)                                 *)
(* Text is modelled by strings; the external language model is the         *)
(* environment: each generate_content call returns a text or raises.       *)
(***************************************************************************)
EXTENDS Integers, Sequences, FiniteSets, TLC

(***************************************************************************)
(* Bounds of the model.                                                    *)
(***************************************************************************)
\* Requests (calls of an entry point) started over the whole run.
MaxRequests == 2

Threads == {1, 2}
\* The threads that issue requests when all calls are serialized.
SerialThreads == {1}
Sessions == {"A", "B"}

\* User inputs: plain, upper-case "exam", "test" inside another word.
Inputs == {"done", "My EXAM", "latest"}
\* Raw replies of the model to the classification prompt.
Replies ==
    { "study_planner", "I think study plan", "Progress Tracking", "foobar",
      "", "  Question_Answerer\n", "the answer is progress_tracker",
      "track this question", "study", "plan ahead",
      "progress answer: study plan" }
\* Texts the model returns to a specialist's prompt.
ModelTexts == {"ok", "Plan: read"}
\* Exceptions generate_content raises (str(e)).
ModelErrors == {"quota exceeded"}

(***************************************************************************)
(* Python string operations used by the code.                              *)
(***************************************************************************)
\* The characters of a string are those of Latin-1 (U+0000..U+00FF).
\* The cased characters str.lower() changes, and what it changes them to.
UpperLetters == "ABCDEFGHIJKLMNOPQRSTUVWXYZÀÁÂÃÄÅÆÇÈÉÊËÌÍÎÏÐÑÒÓÔÕÖØÙÚÛÜÝÞ"
LowerLetters == "abcdefghijklmnopqrstuvwxyzàáâãäåæçèéêëìíîïðñòóôõöøùúûüýþ"

\* str.lower() on one character.
LowerChar(c) ==
    IF \E i \in 1..Len(UpperLetters) : SubSeq(UpperLetters, i, i) = c
    THEN LET i == CHOOSE j \in 1..Len(UpperLetters) : SubSeq(UpperLetters, j, j) = c
         IN  SubSeq(LowerLetters, i, i)
    ELSE c

RECURSIVE LowerFrom(_, _)
LowerFrom(s, i) ==
    IF i > Len(s) THEN "" ELSE LowerChar(SubSeq(s, i, i)) \o LowerFrom(s, i + 1)

\* Faulty variant: lower-casing left out.
LowerIdentity(s) == s

\* str.lower()
Lower(s) == LowerFrom(s, 1)

\* The whitespace str.isspace() knows besides " ", "\t", "\n", "\r", "\f":
\* U+000B, U+001C..U+001F, U+0085, U+00A0.
OtherWhitespace == " "

\* str.isspace() on one character.
IsSpace(c) ==
    \/ c \in {" ", "\t", "\n", "\r", "\f"}
    \/ \E i \in 1..Len(OtherWhitespace) : SubSeq(OtherWhitespace, i, i) = c

\* str.strip(): leading and trailing whitespace removed.
Strip(s) ==
    LET keep == {i \in 1..Len(s) : ~IsSpace(SubSeq(s, i, i))}
    IN  IF keep = {} THEN ""
        ELSE LET lo == CHOOSE i \in keep : \A j \in keep : i <= j
                 hi == CHOOSE i \in keep : \A j \in keep : j <= i
             IN  SubSeq(s, lo, hi)

\* sub in s
Contains(sub, s) ==
    \E i \in 1..(Len(s) - Len(sub) + 1) : SubSeq(s, i, i + Len(sub) - 1) = sub

(***************************************************************************)
(* CoordinatorAgent.route_request: classification.                         *)
(***************************************************************************)
valid_agents == {"study_planner", "question_answerer", "progress_tracker"}

\* Faulty variant: the clean-up chain with the answerer rule tested before the
\* planner rule.
CleanUpAnswererFirst(at) ==
    IF Contains("question", at) \/ Contains("answer", at)
    THEN "question_answerer"
    ELSE IF Contains("study_planner", at)
            \/ (Contains("study", at) /\ Contains("plan", at))
    THEN "study_planner"
    ELSE IF Contains("progress", at) \/ Contains("track", at)
    THEN "progress_tracker"
    ELSE at

\* Faulty variant: the clean-up chain with the tracker rule tested before the others.
CleanUpTrackerFirst(at) ==
    IF Contains("progress", at) \/ Contains("track", at)
    THEN "progress_tracker"
    ELSE IF Contains("study_planner", at)
            \/ (Contains("study", at) /\ Contains("plan", at))
    THEN "study_planner"
    ELSE IF Contains("question", at) \/ Contains("answer", at)
    THEN "question_answerer"
    ELSE at

\* The if/elif chain that cleans the reply up.
CleanUp(at) ==
    IF Contains("study_planner", at)
       \/ (Contains("study", at) /\ Contains("plan", at))
    THEN "study_planner"
    ELSE IF Contains("question", at) \/ Contains("answer", at)
    THEN "question_answerer"
    ELSE IF Contains("progress", at) \/ Contains("track", at)
    THEN "progress_tracker"
    ELSE at

\* Faulty variant: no default for an unrecognised reply.
ValidateNoDefault(at) == at

\* Validation: anything but a valid agent becomes question_answerer.
Validate(at) ==
    IF at \notin valid_agents THEN "question_answerer" ELSE at

\* agent_type as route_request resolves it from the reply's text.
ResolveCategory(text) == Validate(CleanUp(Lower(Strip(text))))

\* ResolveCategory tabulated over the replies of the model (computed once).
ResolvedCategory == [text \in Replies |-> ResolveCategory(text)]


\* The agent_type -> specialist method branch at the end of the try block.
DispatchMethod(at) ==
    IF at = "study_planner" THEN "create_plan"
    ELSE IF at = "question_answerer" THEN "answer_question"
    ELSE IF at = "progress_tracker" THEN "track_progress"
    ELSE "answer_question"

\* The key of the agents mapping the branch looks the specialist up under.
DispatchKey(at) ==
    IF at = "study_planner" THEN "study_planner"
    ELSE IF at = "question_answerer" THEN "question_answerer"
    ELSE IF at = "progress_tracker" THEN "progress_tracker"
    ELSE "question_answerer"

\* The agents mapping the session driver passes to route_request.
agents ==
    [study_planner |-> "StudyPlannerAgent",
     question_answerer |-> "QuestionAnswererAgent",
     progress_tracker |-> "ProgressTrackerAgent"]

\* The agents mappings a caller of route_request passes: the driver's, one
\* without the tracker, one with the planner alone.
AgentsMappings ==
    { agents,
      [k \in {"study_planner", "question_answerer"} |-> agents[k]],
      [k \in {"study_planner"} |-> agents[k]] }

(***************************************************************************)
(* Outcomes of a call: a Response returned, or an exception raised.        *)
(***************************************************************************)
NoResponse == [status |-> "none"]
NoException == "no exception"

Returned(response) == [resp |-> response, exc |-> NoException]
Raised(e) == [resp |-> NoResponse, exc |-> e]

\* Faulty variant: the coordinator lets the exception out.
CoordinatorOnRaiseEscapes(e) == Raised(e)

\* except-branch of route_request.
CoordinatorOnRaise(e) ==
    Returned([status |-> "error", agent_used |-> "coordinator",
              message |-> "Unable to route request: " \o e])

\* Faulty variant: the planner lets the exception out.
PlannerOnRaiseEscapes(e) == Raised(e)

\* except-branch of create_plan.
PlannerOnRaise(e) ==
    Returned([status |-> "error", agent_used |-> "study_planner",
              message |-> "Unable to create study plan: " \o e])

\* except-branch of answer_question.
AnswererOnRaise(e) ==
    Returned([status |-> "error", agent_used |-> "question_answerer",
              message |-> "Unable to answer question: " \o e])

\* except-branch of track_progress.
TrackerOnRaise(e) ==
    Returned([status |-> "error", agent_used |-> "progress_tracker",
              message |-> "Unable to track progress: " \o e])

\* Faulty variant: plan_id taken as the length of study_plans.
PlannerSuccessOffByOne(plan_content, study_plans) ==
    Returned([status |-> "success", agent_used |-> "study_planner",
              message |-> plan_content, plan_id |-> Len(study_plans)])

\* The success Response of create_plan; study_plans is the list as it is then.
PlannerSuccess(plan_content, study_plans) ==
    Returned([status |-> "success", agent_used |-> "study_planner",
              message |-> plan_content, plan_id |-> Len(study_plans) - 1])

\* Faulty variant: the question echoed in place of the answer.
AnswererSuccessEchoes(answer_content, user_input) ==
    Returned([status |-> "success", agent_used |-> "question_answerer",
              message |-> user_input, question |-> user_input])

\* The success Response of answer_question.
AnswererSuccess(answer_content, user_input) ==
    Returned([status |-> "success", agent_used |-> "question_answerer",
              message |-> answer_content, question |-> user_input])

\* Faulty variant: the entries counted without the one just added.
TrackerSuccessBeforeAppend(analysis_content, progress_history) ==
    Returned([status |-> "success", agent_used |-> "progress_tracker",
              message |-> analysis_content,
              total_progress_entries |-> Len(progress_history) - 1,
              progress_recorded |-> TRUE])

\* The success Response of track_progress; progress_history is the list as it
\* is after the model call.
TrackerSuccess(analysis_content, progress_history) ==
    Returned([status |-> "success", agent_used |-> "progress_tracker",
              message |-> analysis_content,
              total_progress_entries |-> Len(progress_history),
              progress_recorded |-> TRUE])

(***************************************************************************)
(* Session memory.                                                         *)
(***************************************************************************)
EmptyDict == [k \in {} |-> TRUE]
DictSet(d, k, v) == [x \in (DOMAIN d) \cup {k} |-> IF x = k THEN v ELSE d[x]]

\* Faulty variant: the session memory constructed without its user profile.
NewSessionMemoryNoProfile ==
    [conversation_history |-> <<>>,
     study_plans |-> <<>>,
     progress_history |-> <<>>]

\* SmartStudyAssistant.__init__: the session memory as constructed.
NewSessionMemory ==
    [conversation_history |-> <<>>,
     study_plans |-> <<>>,
     progress_history |-> <<>>,
     user_profile |-> EmptyDict]

\* A session memory a caller of route_request built without progress_history.
MemoryWithoutProgress ==
    [conversation_history |-> <<>>,
     study_plans |-> <<>>,
     user_profile |-> EmptyDict]

\* str(e) of the KeyError a dict raises for the missing key k.
KeyErrorText(k) == "'" \o k \o "'"

\* The exception a specialist method raises on memory m before its try
\* block, if any: track_progress appends to m['progress_history'] there;
\* the other reads of the three methods are m.get(..) with a default.
SpecialistEntryError(method, m) ==
    IF method = "track_progress" /\ "progress_history" \notin DOMAIN m
    THEN KeyErrorText("progress_history")
    ELSE NoException

\* Faulty variant: the plan record keeps the plan's text as its request.
StudyPlanWithoutRequest(now, user_input, plan_content) ==
    [created_at |-> now, request |-> plan_content,
     plan_content |-> plan_content, status |-> "active"]

\* The plan record create_plan builds.
StudyPlan(now, user_input, plan_content) ==
    [created_at |-> now, request |-> user_input,
     plan_content |-> plan_content, status |-> "active"]

\* Faulty variant: the words looked for in the input as typed.
MentionsExamCaseSensitive(user_input) ==
    Contains("exam", user_input) \/ Contains("test", user_input)

\* The condition under which create_plan updates the user profile.
MentionsExam(user_input) ==
    Contains("exam", Lower(user_input)) \/ Contains("test", Lower(user_input))

\* MentionsExam tabulated over the inputs of the model (computed once).
InputMentionsExam == [user_input \in Inputs |-> MentionsExam(user_input)]

\* The entry track_progress builds.
ProgressEntry(now, user_input) == [timestamp |-> now, update |-> user_input]

\* The entry process_request (run.py) logs before routing.
ConversationEntry(now, user_input) == [timestamp |-> now, input |-> user_input]

\* The entry process_request (src/main.py) logs before routing.
MainConversationEntry(now, user_id, user_input) ==
    [timestamp |-> now, user_id |-> user_id, input |-> user_input]

\* Faulty variant: the new plan replaces the list of plans.
AppendPlanReplaces(m, study_plan) == [m EXCEPT !.study_plans = <<study_plan>>]

\* session_memory['study_plans'].append(study_plan)
AppendPlan(m, study_plan) == [m EXCEPT !.study_plans = Append(@, study_plan)]

\* The profile update that follows the append, for a request that mentions
\* an exam or a test.
UpdateProfile(m) ==
    [m EXCEPT !.user_profile = DictSet(@, "has_upcoming_exam", TRUE)]

\* The session memory after the writes of create_plan's try block, when
\* nothing else writes in between.
StorePlan(m, now, user_input, plan_content) ==
    LET appended == AppendPlan(m, StudyPlan(now, user_input, plan_content))
    IN  IF InputMentionsExam[user_input] THEN UpdateProfile(appended)
        ELSE appended

(***************************************************************************)
(* State.                                                                  *)
(***************************************************************************)
VARIABLES
    mem,         \* session -> its SessionMemory dict
    clock,       \* datetime.now(): the number of timestamps taken so far
    nreq,        \* requests started so far
    pc,          \* thread -> where its request stands
    req,         \* thread -> the entry point called, its session, its input
    pre,         \* thread -> the session's memory when the request started
    raw,         \* thread -> response.text in route_request (a local: Unset
                 \*           outside the call)
    agent_type,  \* thread -> agent_type in route_request (a local)
    content,     \* thread -> plan_content in create_plan (a local)
    result,      \* thread -> the Response create_plan or track_progress has
                 \*           built from the length it read and not yet handed
                 \*           to the caller
    stamp,       \* thread -> the timestamp in the entry the specialist has
                 \*           built and not yet appended (progress_entry in
                 \*           track_progress, study_plan in create_plan)
    invoked,     \* thread -> the specialist calls the request has made
    model_calls, \* thread -> the generate_content calls the request has made
    returned,    \* thread -> how the specialist's method ended
    resp,        \* thread -> the Response the request returned
    exc,         \* thread -> the exception the request raised to its caller
    planLog,     \* session -> the create_plan calls finished, in order
    overlap,     \* thread -> its request ran while another request on the
                 \*           same session memory was under way
    passed,      \* thread -> the agents mapping its request was called with
    driverLog    \* session -> the process_request calls (run.py) returned,
                 \*            counted: all, those that returned a planner's
                 \*            success, those dispatched to the tracker

vars == <<mem, clock, nreq, pc, req, pre, raw, agent_type, content, stamp,
          result, invoked, model_calls, returned, resp, exc, planLog, overlap, passed,
          driverLog>>

NoRequest == [op |-> "none", session |-> "none", user_input |-> ""]
NoneLogged == [requests |-> 0, planned |-> 0, tracked |-> 0]
Unset == "unset"
\* No entry built and waiting to be appended.
NoTimestamp == -1

Init ==
    /\ mem = [s \in Sessions |-> NewSessionMemory]
    /\ clock = 0
    /\ nreq = 0
    /\ pc = [t \in Threads |-> "idle"]
    /\ req = [t \in Threads |-> NoRequest]
    /\ pre = [t \in Threads |-> NewSessionMemory]
    /\ raw = [t \in Threads |-> Unset]
    /\ agent_type = [t \in Threads |-> Unset]
    /\ content = [t \in Threads |-> Unset]
    /\ stamp = [t \in Threads |-> NoTimestamp]
    /\ result = [t \in Threads |-> Raised(NoException)]
    /\ invoked = [t \in Threads |-> <<>>]
    /\ model_calls = [t \in Threads |-> <<>>]
    /\ returned = [t \in Threads |-> Raised(NoException)]
    /\ resp = [t \in Threads |-> NoResponse]
    /\ exc = [t \in Threads |-> NoException]
    /\ planLog = [s \in Sessions |-> <<>>]
    /\ overlap = [t \in Threads |-> FALSE]
    /\ passed = [t \in Threads |-> agents]
    /\ driverLog = [s \in Sessions |-> NoneLogged]

Free(t) == pc[t] \in {"idle", "done"}

\* Thread t has a request under way on session s.
Busy(t, s) == ~Free(t) /\ req[t].session = s

\* A caller on thread t enters entry point op with a session, an input and
\* an agents mapping.
EnterWith(t, op, s, user_input, mapping) ==
    /\ Free(t)
    /\ nreq < MaxRequests
    /\ nreq' = nreq + 1
    /\ req' = [req EXCEPT ![t] = [op |-> op, session |-> s, user_input |-> user_input]]
    /\ pre' = [pre EXCEPT ![t] = mem[s]]
    /\ returned' = [returned EXCEPT ![t] = Raised(NoException)]
    /\ resp' = [resp EXCEPT ![t] = NoResponse]
    /\ exc' = [exc EXCEPT ![t] = NoException]
    /\ overlap' = [u \in Threads |->
                      IF u = t THEN \E v \in Threads \ {t} : Busy(v, s)
                      ELSE overlap[u] \/ Busy(u, s)]
    /\ passed' = [passed EXCEPT ![t] = mapping]
    /\ UNCHANGED <<raw, agent_type, content, planLog, driverLog>>

\* A caller on thread t enters entry point op; the specialists are the three
\* the session driver registers.
Enter(t, op, s, user_input) == EnterWith(t, op, s, user_input, agents)

\* The counts of a session with one more process_request call, which was
\* dispatched to handler and returned response.
CountedIn(counts, handler, response) ==
    [requests |-> counts.requests + 1,
     planned |-> counts.planned +
                 (IF response.status = "success"
                     /\ response.agent_used = "study_planner" THEN 1 ELSE 0),
     tracked |-> counts.tracked + (IF handler = "track_progress" THEN 1 ELSE 0)]

\* The driver's log once thread t's request has returned response.
Logged(t, handler, response) ==
    IF req[t].op = "process_request"
    THEN [driverLog EXCEPT ![req[t].session] = CountedIn(@, handler, response)]
    ELSE driverLog

\* A generate_content call of caller, not yet answered.
Pending(caller) == [caller |-> caller, outcome |-> "pending"]

\* The log of model calls with its last (pending) call answered.
Answered(log, outcome) == [log EXCEPT ![Len(log)].outcome = outcome]

\* Faulty variant: track_progress appends its entry only after the model call.
BeforeModelCallNoAppend(method, m, now, user_input) == m

\* Faulty variant: create_plan stores the plan before the model call.
BeforeModelCallStoresPlan(method, m, now, user_input) ==
    IF method = "track_progress"
    THEN [m EXCEPT !.progress_history = Append(@, ProgressEntry(now, user_input))]
    ELSE IF method = "create_plan"
    THEN StorePlan(m, now, user_input, "")
    ELSE m

\* Faulty variant: answer_question logs the question in conversation_history.
BeforeModelCallAnswererLogs(method, m, now, user_input) ==
    IF method = "track_progress"
    THEN [m EXCEPT !.progress_history = Append(@, ProgressEntry(now, user_input))]
    ELSE IF method = "answer_question"
    THEN [m EXCEPT !.conversation_history =
                      Append(@, ConversationEntry(now, user_input))]
    ELSE m

\* The session memory a specialist method leaves on memory m up to its
\* model call, the entry it built being stamped now.  track_progress appends
\* its entry; the other two only read.
BeforeModelCall(method, m, now, user_input) ==
    IF method = "track_progress"
    THEN [m EXCEPT !.progress_history = Append(@, ProgressEntry(now, user_input))]
    ELSE m

WaitingIn(method) ==
    IF method = "create_plan" THEN "plan_call"
    ELSE IF method = "answer_question" THEN "answer_call"
    ELSE "track_call"

\* agent_used of the specialist that has the method.
CategoryOf(method) ==
    IF method = "create_plan" THEN "study_planner"
    ELSE IF method = "answer_question" THEN "question_answerer"
    ELSE "progress_tracker"

\* The methods that build a timestamped entry first, in a statement of its
\* own, and write it to the session memory in the next.
BuildsEntryFirst(method) == method = "track_progress"

\* Where a specialist method stands after its first statements.
AfterEntry(method) ==
    IF BuildsEntryFirst(method) THEN "track_entry" ELSE WaitingIn(method)

\* The first statements of the specialist method of call, run by thread t
\* whose log of model calls is log.  track_progress builds progress_entry
\* (datetime.now() is read) and stops before the append; the other two read
\* the memory, build the prompt and call the model.
EnterMethod(t, call, log) ==
    IF BuildsEntryFirst(call.method)
    THEN /\ stamp' = [stamp EXCEPT ![t] = clock]
         /\ clock' = clock + 1
         /\ model_calls' = [model_calls EXCEPT ![t] = log]
         /\ UNCHANGED mem
    ELSE /\ mem' = [mem EXCEPT ![call.session] =
                       BeforeModelCall(call.method, @, clock, call.user_input)]
         /\ model_calls' = [model_calls EXCEPT ![t] =
                               Append(log, Pending(CategoryOf(call.method)))]
         /\ UNCHANGED <<clock, stamp>>

\* The call record of a specialist method of the agent registered under key.
Invocation(key, method, s, user_input) ==
    [agent |-> agents[key], method |-> method, session |-> s,
     user_input |-> user_input]

\* The specialist call thread t is in (or was last in).
Current(t) == invoked[t][Len(invoked[t])]

(***************************************************************************)
(* Entry points.                                                           *)
(***************************************************************************)
\* coordinator.route_request(user_input, session_memory, agents) up to the
\* classification model call.
CallRouteRequest(t, s, user_input) ==
    /\ Enter(t, "route_request", s, user_input)
    /\ invoked' = [invoked EXCEPT ![t] = <<>>]
    /\ model_calls' = [model_calls EXCEPT ![t] = <<Pending("coordinator")>>]
    /\ pc' = [pc EXCEPT ![t] = "classify"]
    /\ UNCHANGED <<mem, clock, stamp, result>>

\* coordinator.route_request called with an agents mapping of the caller's.
CallRouteRequestWith(t, s, user_input, mapping) ==
    /\ EnterWith(t, "route_request", s, user_input, mapping)
    /\ invoked' = [invoked EXCEPT ![t] = <<>>]
    /\ model_calls' = [model_calls EXCEPT ![t] = <<Pending("coordinator")>>]
    /\ pc' = [pc EXCEPT ![t] = "classify"]
    /\ UNCHANGED <<mem, clock, stamp, result>>

\* SmartStudyAssistant.process_request (run.py): logs the input, then routes.
CallProcessRequest(t, s, user_input) ==
    /\ Enter(t, "process_request", s, user_input)
    /\ mem' = [mem EXCEPT ![s].conversation_history =
                              Append(@, ConversationEntry(clock, user_input))]
    /\ clock' = clock + 1
    /\ invoked' = [invoked EXCEPT ![t] = <<>>]
    /\ model_calls' = [model_calls EXCEPT ![t] = <<Pending("coordinator")>>]
    /\ pc' = [pc EXCEPT ![t] = "classify"]
    /\ UNCHANGED <<stamp, result>>

\* A specialist method called directly: its first statements.
CallSpecialist(t, key, method, s, user_input) ==
    /\ Enter(t, method, s, user_input)
    /\ EnterMethod(t, Invocation(key, method, s, user_input), <<>>)
    /\ invoked' = [invoked EXCEPT ![t] = <<Invocation(key, method, s, user_input)>>]
    /\ pc' = [pc EXCEPT ![t] = AfterEntry(method)]
    /\ UNCHANGED result

CallCreatePlan(t, s, user_input) ==
    CallSpecialist(t, "study_planner", "create_plan", s, user_input)

CallAnswerQuestion(t, s, user_input) ==
    CallSpecialist(t, "question_answerer", "answer_question", s, user_input)

CallTrackProgress(t, s, user_input) ==
    CallSpecialist(t, "progress_tracker", "track_progress", s, user_input)

(***************************************************************************)
(* SmartStudyAssistant.process_request of src/main.py.                     *)
(***************************************************************************)
\* The parameters route_request declares after self.
RouteRequestParameters == <<"user_input", "session_memory", "agents">>

\* The arguments process_request (src/main.py) passes to route_request.
MainRouteArguments == <<"user_input">>

\* The required parameters a call with the positional arguments args leaves
\* without a value.
Missing(parameters, args) == SubSeq(parameters, Len(args) + 1, Len(parameters))

\* str(e) of the TypeError Python raises for the call.
MissingArgumentsError ==
    "CoordinatorAgent.route_request() missing 2 required positional arguments: "
    \o "'session_memory' and 'agents'"

\* except-branch of process_request (src/main.py).
MainOnRaise(e) ==
    Returned([status |-> "error", message |-> "An error occurred: " \o e,
              agent_used |-> "none"])

\* process_request (src/main.py) up to its try block: the input is logged.
CallMainProcessRequest(t, s, user_input) ==
    /\ Enter(t, "main_process_request", s, user_input)
    /\ mem' = [mem EXCEPT ![s].conversation_history =
                  Append(@, MainConversationEntry(clock, "default_user", user_input))]
    /\ clock' = clock + 1
    /\ invoked' = [invoked EXCEPT ![t] = <<>>]
    /\ model_calls' = [model_calls EXCEPT ![t] = <<>>]
    /\ pc' = [pc EXCEPT ![t] = "main_route"]
    /\ UNCHANGED <<stamp, result>>

\* The try block: route_request is called with user_input alone, the call
\* raises TypeError before the coordinator runs, and the except-branch
\* returns the error Response.
MainRouteRaise(t) ==
    /\ pc[t] = "main_route"
    /\ Missing(RouteRequestParameters, MainRouteArguments) # <<>>
    /\ resp' = [resp EXCEPT ![t] = MainOnRaise(MissingArgumentsError).resp]
    /\ exc' = [exc EXCEPT ![t] = MainOnRaise(MissingArgumentsError).exc]
    /\ pc' = [pc EXCEPT ![t] = "done"]
    /\ UNCHANGED <<mem, clock, nreq, req, pre, raw, agent_type, content,
                   stamp, result, invoked, model_calls, returned, planLog, overlap,
                   passed, driverLog>>

(***************************************************************************)
(* Returning.                                                              *)
(***************************************************************************)
\* Faulty variant: the dispatch stands outside route_request's try block.
RouteReturnOutsideTry(o) == o

\* What route_request makes of the outcome of the specialist it called: the
\* call stands inside its try block, the Response is returned as it is.
RouteReturn(o) == IF o.exc # NoException THEN CoordinatorOnRaise(o.exc) ELSE o

\* What the caller of the entry point gets when the specialist's method ends
\* with outcome o.  process_request (run.py) returns route_request's result.
EntryOutcome(op, o) ==
    IF op \in {"route_request", "process_request"} THEN RouteReturn(o) ELSE o

\* The specialist method of thread t ends with outcome o, its model call
\* having ended as answer says; the locals of the call are gone.
Finish(t, answer, o) ==
    /\ returned' = [returned EXCEPT ![t] = o]
    /\ resp' = [resp EXCEPT ![t] = EntryOutcome(req[t].op, o).resp]
    /\ exc' = [exc EXCEPT ![t] = EntryOutcome(req[t].op, o).exc]
    /\ model_calls' = [model_calls EXCEPT ![t] = Answered(@, answer)]
    /\ pc' = [pc EXCEPT ![t] = "done"]
    /\ raw' = [raw EXCEPT ![t] = Unset]
    /\ agent_type' = [agent_type EXCEPT ![t] = Unset]
    /\ content' = [content EXCEPT ![t] = Unset]
    /\ planLog' = IF Current(t).method = "create_plan"
                  THEN [planLog EXCEPT ![Current(t).session] =
                           Append(@, [user_input |-> Current(t).user_input,
                                      resp |-> o.resp])]
                  ELSE planLog
    /\ driverLog' = Logged(t, Current(t).method, EntryOutcome(req[t].op, o).resp)
    /\ result' = [result EXCEPT ![t] = Raised(NoException)]
    /\ UNCHANGED <<nreq, req, pre, stamp, invoked, overlap, passed>>

(***************************************************************************)
(* CoordinatorAgent.route_request after the classification call.           *)
(***************************************************************************)
\* Faulty variant: every request is handed to the question answerer.
DispatchAlwaysAnswerer(at, s, user_input) ==
    Invocation("question_answerer", "answer_question", s, user_input)

\* The specialist call route_request makes for agent_type at.
Dispatch(at, s, user_input) ==
    Invocation(DispatchKey(at), DispatchMethod(at), s, user_input)

\* The exception the lookup agents[..] of the dispatch branch raises for
\* agent_type at, if any: the key is not in the agents mapping.
DispatchError(at, mapping) ==
    IF DispatchKey(at) \notin DOMAIN mapping
    THEN KeyErrorText(DispatchKey(at))
    ELSE NoException

\* The classification call returns text: agent_type is resolved and the
\* specialist is called; its first statements run.
ClassifyReturn(t, text) ==
    /\ pc[t] = "classify"
    /\ DispatchError(ResolvedCategory[text], passed[t]) = NoException
    /\ LET at == ResolvedCategory[text]
           call == Dispatch(at, req[t].session, req[t].user_input)
       IN  /\ raw' = [raw EXCEPT ![t] = text]
           /\ agent_type' = [agent_type EXCEPT ![t] = at]
           /\ invoked' = [invoked EXCEPT ![t] = Append(@, call)]
           /\ EnterMethod(t, call, Answered(model_calls[t], "returned"))
           /\ pc' = [pc EXCEPT ![t] = AfterEntry(call.method)]
    /\ UNCHANGED <<nreq, req, pre, content, result, returned, resp, exc,
                   planLog, overlap, passed, driverLog>>

\* The classification call returns text and the lookup in the agents mapping
\* raises KeyError: no specialist is called, route_request's except-branch
\* returns the error Response.
DispatchRaise(t, text) ==
    /\ pc[t] = "classify"
    /\ LET e == DispatchError(ResolvedCategory[text], passed[t])
       IN  /\ e # NoException
           /\ resp' = [resp EXCEPT ![t] = RouteReturn(Raised(e)).resp]
           /\ exc' = [exc EXCEPT ![t] = RouteReturn(Raised(e)).exc]
           /\ driverLog' = Logged(t, "none", RouteReturn(Raised(e)).resp)
    /\ model_calls' = [model_calls EXCEPT ![t] = Answered(@, "returned")]
    /\ pc' = [pc EXCEPT ![t] = "done"]
    /\ UNCHANGED <<mem, clock, nreq, req, pre, raw, agent_type, content, stamp,
                   result,
                   invoked, returned, planLog, overlap, passed>>

\* Faulty variant: when the classification call raises, the request is handed
\* to the question answerer.
ClassifyRaiseFallsBack(t, e) ==
    /\ pc[t] = "classify"
    /\ invoked' = [invoked EXCEPT ![t] =
           <<Invocation("question_answerer", "answer_question",
                        req[t].session, req[t].user_input)>>]
    /\ model_calls' = [model_calls EXCEPT ![t] =
           Append(Answered(@, "raised"), Pending("question_answerer"))]
    /\ pc' = [pc EXCEPT ![t] = "answer_call"]
    /\ UNCHANGED <<mem, clock, nreq, req, pre, raw, agent_type, content, stamp,
                   result,
                   returned, resp, exc, planLog, overlap, passed, driverLog>>

\* The classification call raises e.
ClassifyRaise(t, e) ==
    /\ pc[t] = "classify"
    /\ resp' = [resp EXCEPT ![t] = CoordinatorOnRaise(e).resp]
    /\ exc' = [exc EXCEPT ![t] = CoordinatorOnRaise(e).exc]
    /\ model_calls' = [model_calls EXCEPT ![t] = Answered(@, "raised")]
    /\ pc' = [pc EXCEPT ![t] = "done"]
    /\ driverLog' = Logged(t, "none", CoordinatorOnRaise(e).resp)
    /\ UNCHANGED <<mem, clock, nreq, req, pre, raw, agent_type, content, stamp,
                   result,
                   invoked, returned, planLog, overlap, passed>>

(***************************************************************************)
(* StudyPlannerAgent.create_plan after its model call.                     *)
(***************************************************************************)
\* The model returns text: study_plan is built (datetime.now() is read).
PlanModelReturn(t, text) ==
    /\ pc[t] = "plan_call"
    /\ content' = [content EXCEPT ![t] = text]
    /\ stamp' = [stamp EXCEPT ![t] = clock]
    /\ clock' = clock + 1
    /\ model_calls' = [model_calls EXCEPT ![t] = Answered(@, "returned")]
    /\ pc' = [pc EXCEPT ![t] = "plan_built"]
    /\ UNCHANGED <<mem, nreq, req, pre, raw, agent_type, result, invoked,
                   returned, resp, exc, planLog, overlap, passed, driverLog>>

\* study_plan is appended to the list; the test of the request for "exam"
\* and "test" follows.
PlanAppend(t) ==
    /\ pc[t] = "plan_built"
    /\ mem' = [mem EXCEPT ![Current(t).session] =
                  AppendPlan(@, StudyPlan(stamp[t], Current(t).user_input,
                                          content[t]))]
    /\ stamp' = [stamp EXCEPT ![t] = NoTimestamp]
    /\ pc' = [pc EXCEPT ![t] = IF InputMentionsExam[Current(t).user_input]
                               THEN "plan_appended" ELSE "plan_stored"]
    /\ UNCHANGED <<clock, nreq, req, pre, raw, agent_type, content, result,
                   invoked, model_calls, returned, resp, exc, planLog, overlap,
                   passed, driverLog>>

\* The request mentions an exam or a test: the profile is updated.
PlanProfile(t) ==
    /\ pc[t] = "plan_appended"
    /\ mem' = [mem EXCEPT ![Current(t).session] = UpdateProfile(@)]
    /\ pc' = [pc EXCEPT ![t] = "plan_stored"]
    /\ UNCHANGED <<clock, nreq, req, pre, raw, agent_type, content, stamp,
                   result,
                   invoked, model_calls, returned, resp, exc, planLog, overlap,
                   passed, driverLog>>

\* Faulty variant: the planner numbers its plans over all the sessions it has
\* served.
PlanResponseCountsAllSessions(t) ==
    /\ pc[t] = "plan_stored"
    /\ result' = [result EXCEPT ![t] =
                     PlannerSuccess(content[t],
                                    mem["A"].study_plans \o mem["B"].study_plans)]
    /\ pc' = [pc EXCEPT ![t] = "plan_return"]
    /\ UNCHANGED <<mem, clock, nreq, req, pre, raw, agent_type, content, stamp,
                   invoked, model_calls, returned, resp, exc, planLog, overlap,
                   passed, driverLog>>

\* The expression of the return statement is evaluated: plan_id is read from
\* the list as it is now.
PlanResponse(t) ==
    /\ pc[t] = "plan_stored"
    /\ result' = [result EXCEPT ![t] =
                     PlannerSuccess(content[t],
                                    mem[Current(t).session].study_plans)]
    /\ pc' = [pc EXCEPT ![t] = "plan_return"]
    /\ UNCHANGED <<mem, clock, nreq, req, pre, raw, agent_type, content, stamp,
                   invoked, model_calls, returned, resp, exc, planLog, overlap,
                   passed, driverLog>>

\* create_plan returns the Response it built to its caller.
PlanReturn(t) ==
    /\ pc[t] = "plan_return"
    /\ Finish(t, "returned", result[t])
    /\ UNCHANGED <<mem, clock>>

\* Faulty variant: create_plan calls the model again when the call raises.
PlanModelRaiseRetries(t, e) ==
    /\ pc[t] = "plan_call"
    /\ model_calls' = [model_calls EXCEPT ![t] =
           Append(Answered(@, "raised"), Pending("study_planner"))]
    /\ UNCHANGED <<mem, clock, nreq, pc, req, pre, raw, agent_type, content,
                   stamp, result, invoked, returned, resp, exc, planLog, overlap,
                   passed, driverLog>>

\* Faulty variant: a failed create_plan leaves an empty plan behind.
PlanModelRaiseStoresPlan(t, e) ==
    /\ pc[t] = "plan_call"
    /\ Finish(t, "raised", PlannerOnRaise(e))
    /\ mem' = [mem EXCEPT ![Current(t).session] =
                  StorePlan(@, clock, Current(t).user_input, "")]
    /\ clock' = clock + 1

\* The model call raises e.
PlanModelRaise(t, e) ==
    /\ pc[t] = "plan_call"
    /\ Finish(t, "raised", PlannerOnRaise(e))
    /\ UNCHANGED <<mem, clock>>

(***************************************************************************)
(* QuestionAnswererAgent.answer_question after its model call.             *)
(***************************************************************************)
AnswerModelReturn(t, text) ==
    /\ pc[t] = "answer_call"
    /\ Finish(t, "returned", AnswererSuccess(text, Current(t).user_input))
    /\ UNCHANGED <<mem, clock>>

AnswerModelRaise(t, e) ==
    /\ pc[t] = "answer_call"
    /\ Finish(t, "raised", AnswererOnRaise(e))
    /\ UNCHANGED <<mem, clock>>

(***************************************************************************)
(* ProgressTrackerAgent.track_progress after its model call.               *)
(***************************************************************************)
\* progress_entry is appended to the list of a session memory that has one;
\* the prompt is built and the model is called.
TrackAppend(t) ==
    /\ pc[t] = "track_entry"
    /\ SpecialistEntryError("track_progress", mem[Current(t).session])
          = NoException
    /\ mem' = [mem EXCEPT ![Current(t).session] =
                  BeforeModelCall("track_progress", @, stamp[t],
                                  Current(t).user_input)]
    /\ stamp' = [stamp EXCEPT ![t] = NoTimestamp]
    /\ model_calls' = [model_calls EXCEPT ![t] =
                          Append(@, Pending("progress_tracker"))]
    /\ pc' = [pc EXCEPT ![t] = "track_call"]
    /\ UNCHANGED <<clock, nreq, req, pre, raw, agent_type, content, result,
                   invoked, returned, resp, exc, planLog, overlap, passed,
                   driverLog>>

\* The session memory has no progress_history: the append raises KeyError
\* before track_progress's try block, and the exception leaves the method.
TrackAppendRaise(t) ==
    /\ pc[t] = "track_entry"
    /\ LET o == Raised(SpecialistEntryError("track_progress",
                                            mem[Current(t).session]))
       IN  /\ o.exc # NoException
           /\ returned' = [returned EXCEPT ![t] = o]
           /\ resp' = [resp EXCEPT ![t] = EntryOutcome(req[t].op, o).resp]
           /\ exc' = [exc EXCEPT ![t] = EntryOutcome(req[t].op, o).exc]
           /\ driverLog' = Logged(t, "track_progress",
                                  EntryOutcome(req[t].op, o).resp)
    /\ pc' = [pc EXCEPT ![t] = "done"]
    /\ raw' = [raw EXCEPT ![t] = Unset]
    /\ agent_type' = [agent_type EXCEPT ![t] = Unset]
    /\ stamp' = [stamp EXCEPT ![t] = NoTimestamp]
    /\ UNCHANGED <<mem, clock, nreq, req, pre, content, result, invoked,
                   model_calls, planLog, overlap, passed>>

\* The model returns text: total_entries is read from the list as it is
\* now, and the Response is the one built from it.
TrackModelReturn(t, text) ==
    /\ pc[t] = "track_call"
    /\ result' = [result EXCEPT ![t] =
                     TrackerSuccess(text, mem[Current(t).session].progress_history)]
    /\ model_calls' = [model_calls EXCEPT ![t] = Answered(@, "returned")]
    /\ pc' = [pc EXCEPT ![t] = "track_return"]
    /\ UNCHANGED <<mem, clock, nreq, req, pre, raw, agent_type, content, stamp,
                   invoked, returned, resp, exc, planLog, overlap, passed,
                   driverLog>>

\* track_progress returns the Response to its caller.
TrackReturn(t) ==
    /\ pc[t] = "track_return"
    /\ Finish(t, "returned", result[t])
    /\ UNCHANGED <<mem, clock>>

TrackModelRaise(t, e) ==
    /\ pc[t] = "track_call"
    /\ Finish(t, "raised", TrackerOnRaise(e))
    /\ UNCHANGED <<mem, clock>>

(***************************************************************************)
(* Specification: one caller, every request run to its end before the     *)
(* next starts.                                                            *)
(***************************************************************************)
Step(t) ==
    \/ \E s \in Sessions, i \in Inputs : CallRouteRequest(t, s, i)
    \/ \E s \in Sessions, i \in Inputs : CallProcessRequest(t, s, i)
    \/ \E s \in Sessions, i \in Inputs : CallMainProcessRequest(t, s, i)
    \/ MainRouteRaise(t)
    \/ \E s \in Sessions, i \in Inputs : CallCreatePlan(t, s, i)
    \/ \E s \in Sessions, i \in Inputs : CallAnswerQuestion(t, s, i)
    \/ \E s \in Sessions, i \in Inputs : CallTrackProgress(t, s, i)
    \/ \E r \in Replies : ClassifyReturn(t, r)
    \/ \E e \in ModelErrors : ClassifyRaise(t, e)
    \/ \E x \in ModelTexts : PlanModelReturn(t, x)
    \/ PlanAppend(t)
    \/ PlanProfile(t)
    \/ PlanResponse(t)
    \/ PlanReturn(t)
    \/ \E e \in ModelErrors : PlanModelRaise(t, e)
    \/ \E x \in ModelTexts : AnswerModelReturn(t, x)
    \/ \E e \in ModelErrors : AnswerModelRaise(t, e)
    \/ TrackAppend(t)
    \/ \E x \in ModelTexts : TrackModelReturn(t, x)
    \/ TrackReturn(t)
    \/ \E e \in ModelErrors : TrackModelRaise(t, e)

Next == \E t \in SerialThreads : Step(t)

Spec == Init /\ [][Next]_vars

(***************************************************************************)
(* Specification with progress: a model call under way eventually returns  *)
(* or raises, and the code after it runs on to its return statement.       *)
(***************************************************************************)
\* The steps that carry a request of thread t on once it has been made.
Proceed(t) ==
    \/ \E r \in Replies : ClassifyReturn(t, r)
    \/ \E e \in ModelErrors : ClassifyRaise(t, e)
    \/ MainRouteRaise(t)
    \/ \E x \in ModelTexts : PlanModelReturn(t, x)
    \/ PlanAppend(t)
    \/ PlanProfile(t)
    \/ PlanResponse(t)
    \/ PlanReturn(t)
    \/ \E e \in ModelErrors : PlanModelRaise(t, e)
    \/ \E x \in ModelTexts : AnswerModelReturn(t, x)
    \/ \E e \in ModelErrors : AnswerModelRaise(t, e)
    \/ TrackAppend(t)
    \/ \E x \in ModelTexts : TrackModelReturn(t, x)
    \/ TrackReturn(t)
    \/ \E e \in ModelErrors : TrackModelRaise(t, e)

\* The session memories the callers of this specification use.
LiveSessions == {"A"}

StepLive(t) ==
    \/ \E s \in LiveSessions, i \in Inputs : CallRouteRequest(t, s, i)
    \/ \E s \in LiveSessions, i \in Inputs : CallProcessRequest(t, s, i)
    \/ \E s \in LiveSessions, i \in Inputs : CallMainProcessRequest(t, s, i)
    \/ \E s \in LiveSessions, i \in Inputs : CallCreatePlan(t, s, i)
    \/ \E s \in LiveSessions, i \in Inputs : CallAnswerQuestion(t, s, i)
    \/ \E s \in LiveSessions, i \in Inputs : CallTrackProgress(t, s, i)
    \/ Proceed(t)

NextLive == \E t \in SerialThreads : StepLive(t)

SpecLive ==
    Init /\ [][NextLive]_vars /\ \A t \in SerialThreads : WF_vars(Proceed(t))

(***************************************************************************)
(* Specification: the session driver of run.py; every request is a         *)
(* process_request call.                                                   *)
(***************************************************************************)
\* Faulty variant: the interactions counted are those that left a record.
GetSessionSummaryCountsRecords(m) ==
    [total_interactions |-> Len(m.study_plans) + Len(m.progress_history),
     study_plans_created |-> Len(m.study_plans),
     progress_entries |-> Len(m.progress_history)]

\* SmartStudyAssistant.get_session_summary (run.py) on session memory m.
GetSessionSummary(m) ==
    [total_interactions |-> Len(m.conversation_history),
     study_plans_created |-> Len(m.study_plans),
     progress_entries |-> Len(m.progress_history)]

StepDriver(t) ==
    \/ \E s \in Sessions, i \in Inputs : CallProcessRequest(t, s, i)
    \/ \E r \in Replies : ClassifyReturn(t, r)
    \/ \E e \in ModelErrors : ClassifyRaise(t, e)
    \/ \E x \in ModelTexts : PlanModelReturn(t, x)
    \/ PlanAppend(t)
    \/ PlanProfile(t)
    \/ PlanResponse(t)
    \/ PlanReturn(t)
    \/ \E e \in ModelErrors : PlanModelRaise(t, e)
    \/ \E x \in ModelTexts : AnswerModelReturn(t, x)
    \/ \E e \in ModelErrors : AnswerModelRaise(t, e)
    \/ TrackAppend(t)
    \/ \E x \in ModelTexts : TrackModelReturn(t, x)
    \/ TrackReturn(t)
    \/ \E e \in ModelErrors : TrackModelRaise(t, e)

NextDriver == \E t \in SerialThreads : StepDriver(t)

SpecDriver == Init /\ [][NextDriver]_vars

(***************************************************************************)
(* Specification: route_request called by a caller of its own, with an     *)
(* agents mapping that may lack specialists and session memories that may  *)
(* lack progress_history.                                                  *)
(***************************************************************************)
InitDispatch ==
    /\ mem \in [Sessions -> {NewSessionMemory, MemoryWithoutProgress}]
    /\ clock = 0
    /\ nreq = 0
    /\ pc = [t \in Threads |-> "idle"]
    /\ req = [t \in Threads |-> NoRequest]
    /\ pre = [t \in Threads |-> NewSessionMemory]
    /\ raw = [t \in Threads |-> Unset]
    /\ agent_type = [t \in Threads |-> Unset]
    /\ content = [t \in Threads |-> Unset]
    /\ stamp = [t \in Threads |-> NoTimestamp]
    /\ result = [t \in Threads |-> Raised(NoException)]
    /\ invoked = [t \in Threads |-> <<>>]
    /\ model_calls = [t \in Threads |-> <<>>]
    /\ returned = [t \in Threads |-> Raised(NoException)]
    /\ resp = [t \in Threads |-> NoResponse]
    /\ exc = [t \in Threads |-> NoException]
    /\ planLog = [s \in Sessions |-> <<>>]
    /\ overlap = [t \in Threads |-> FALSE]
    /\ passed = [t \in Threads |-> agents]
    /\ driverLog = [s \in Sessions |-> NoneLogged]

StepDispatch(t) ==
    \/ \E s \in Sessions, i \in Inputs, mapping \in AgentsMappings :
          CallRouteRequestWith(t, s, i, mapping)
    \/ \E r \in Replies : ClassifyReturn(t, r)
    \/ \E r \in Replies : DispatchRaise(t, r)
    \/ TrackAppendRaise(t)
    \/ \E e \in ModelErrors : ClassifyRaise(t, e)
    \/ \E x \in ModelTexts : PlanModelReturn(t, x)
    \/ PlanAppend(t)
    \/ PlanProfile(t)
    \/ PlanResponse(t)
    \/ PlanReturn(t)
    \/ \E e \in ModelErrors : PlanModelRaise(t, e)
    \/ \E x \in ModelTexts : AnswerModelReturn(t, x)
    \/ \E e \in ModelErrors : AnswerModelRaise(t, e)
    \/ TrackAppend(t)
    \/ \E x \in ModelTexts : TrackModelReturn(t, x)
    \/ TrackReturn(t)
    \/ \E e \in ModelErrors : TrackModelRaise(t, e)

NextDispatch == \E t \in SerialThreads : StepDispatch(t)

SpecDispatch == InitDispatch /\ [][NextDispatch]_vars

(***************************************************************************)
(* Specification: two callers share the specialists and the session        *)
(* memories and nothing serializes them; the steps of their create_plan    *)
(* and track_progress calls interleave: a thread may be switched out       *)
(* between any two statements that read the clock or touch the session     *)
(* memory (the timestamp, the append, the profile update, the model call,  *)
(* the reading of the list's length, the return), in create_plan and in    *)
(* track_progress alike.                                                   *)
(***************************************************************************)
\* The inputs the two callers send: one that mentions an exam, one that
\* does not.
RaceInputs == {"done", "My EXAM"}

StepRace(t) ==
    \/ \E s \in Sessions, i \in RaceInputs : CallCreatePlan(t, s, i)
    \/ \E s \in Sessions, i \in RaceInputs : CallTrackProgress(t, s, i)
    \/ \E x \in ModelTexts : PlanModelReturn(t, x)
    \/ PlanAppend(t)
    \/ PlanProfile(t)
    \/ PlanResponse(t)
    \/ PlanReturn(t)
    \/ \E e \in ModelErrors : PlanModelRaise(t, e)
    \/ TrackAppend(t)
    \/ \E x \in ModelTexts : TrackModelReturn(t, x)
    \/ TrackReturn(t)
    \/ \E e \in ModelErrors : TrackModelRaise(t, e)

NextRace == \E t \in Threads : StepRace(t)

SpecRace == Init /\ [][NextRace]_vars


(***************************************************************************)
(* Properties.                                                             *)
(***************************************************************************)
\* The requests that go through the coordinator.
Routed(t) == req[t].op \in {"route_request", "process_request"}

\* Thread t is inside the specialist call route_request made: the reply of
\* the classification call and the agent_type resolved from it are live.
Classified(t) == Routed(t) /\ raw[t] # Unset

\* The lower-cased, trimmed reply, for each reply of the model.
Normalized == [r \in Replies |-> Lower(Strip(r))]

\* The categories whose exact token the normalized reply contains.
ExactTokens == [r \in Replies |-> {c \in valid_agents : Contains(c, Normalized[r])}]

\* The replies no rule of the clean-up matches.
Unmatched ==
    {r \in Replies :
        /\ ~Contains("study_planner", Normalized[r])
        /\ ~(Contains("study", Normalized[r]) /\ Contains("plan", Normalized[r]))
        /\ ~Contains("question", Normalized[r])
        /\ ~Contains("answer", Normalized[r])
        /\ ~Contains("progress", Normalized[r])
        /\ ~Contains("track", Normalized[r])}

\* C1: for the replies "study_planner", "I think study plan",
\* "Progress Tracking" and "foobar", route_request resolves study_planner,
\* study_planner, progress_tracker and question_answerer, and calls the
\* specialist of that category.
C1_Normalization ==
    \A t \in Threads :
        Classified(t) =>
            /\ raw[t] = "study_planner" => agent_type[t] = "study_planner"
            /\ raw[t] = "I think study plan" => agent_type[t] = "study_planner"
            /\ raw[t] = "Progress Tracking" => agent_type[t] = "progress_tracker"
            /\ raw[t] = "foobar" => agent_type[t] = "question_answerer"
            /\ raw[t] \in {"study_planner", "I think study plan",
                           "Progress Tracking", "foobar"}
                   => Current(t).method = DispatchMethod(agent_type[t])

\* C1 witness: the reply "Progress Tracking" has been classified and the
\* tracker is running.
C1_Witness ==
    \E t \in Threads :
        /\ Classified(t)
        /\ raw[t] = "Progress Tracking"
        /\ agent_type[t] = "progress_tracker"
        /\ pc[t] = "track_call"

\* C2: a reply whose normalized text contains the exact token of a category
\* resolves to that category, whatever else the reply holds.
C2_ExactTokenAccepted ==
    \A t \in Threads :
        Classified(t) => \A c \in ExactTokens[raw[t]] : agent_type[t] = c

\* C3: the resolved category is always one of the three; a reply no rule
\* matches resolves to question_answerer; and a request whose classification
\* call returned a reply never ends in the coordinator's error Response.
C3_AlwaysUsableCategory ==
    \A t \in Threads :
        /\ Classified(t) =>
              /\ agent_type[t] \in valid_agents
              /\ raw[t] \in Unmatched => agent_type[t] = "question_answerer"
              /\ Current(t).agent = agents[agent_type[t]]
        /\ (Routed(t) /\ pc[t] = "done" /\ model_calls[t][1].outcome = "returned") =>
              /\ exc[t] = NoException
              /\ resp[t].status \in {"success", "error"}
              /\ resp[t].agent_used \in valid_agents

\* C3 witness: the empty reply has been classified as question_answerer.
C3_Witness ==
    \E t \in Threads :
        /\ Classified(t)
        /\ raw[t] = ""
        /\ raw[t] \in Unmatched
        /\ agent_type[t] = "question_answerer"
        /\ pc[t] = "answer_call"


\* The classification call of thread t's routed request returned a reply.
ClassificationReturned(t) ==
    Routed(t) /\ model_calls[t] # <<>> /\ model_calls[t][1].outcome = "returned"

\* The classification call of thread t's routed request raised.
ClassificationRaised(t) ==
    Routed(t) /\ model_calls[t] # <<>> /\ model_calls[t][1].outcome = "raised"

\* The handling operation each category's specialist offers.
HandlerOf ==
    [study_planner |-> "create_plan",
     question_answerer |-> "answer_question",
     progress_tracker |-> "track_progress"]

\* C4: when classification succeeds route_request makes exactly one
\* specialist call, on the agent registered under the resolved category,
\* with the caller's input and session memory, and returns what that call
\* returned, error Responses included.
C4_DispatchExactlyOne ==
    \A t \in Threads :
        ClassificationReturned(t) =>
            /\ Len(invoked[t]) = 1
            /\ invoked[t][1].session = req[t].session
            /\ invoked[t][1].user_input = req[t].user_input
            /\ Classified(t) =>
                  /\ invoked[t][1].agent = agents[agent_type[t]]
                  /\ invoked[t][1].method = HandlerOf[agent_type[t]]
            /\ pc[t] = "done" =>
                  /\ exc[t] = NoException
                  /\ resp[t] = returned[t].resp
                  /\ resp[t].agent_used = CategoryOf(invoked[t][1].method)

\* C4 witness: a routed request has returned the tracker's error Response.
C4_Witness ==
    \E t \in Threads :
        /\ req[t].op = "route_request"
        /\ ClassificationReturned(t)
        /\ pc[t] = "done"
        /\ invoked[t] = <<Invocation("progress_tracker", "track_progress",
                                     req[t].session, req[t].user_input)>>
        /\ resp[t].status = "error"
        /\ resp[t].agent_used = "progress_tracker"

\* C5: when the classification call raises, route_request returns the
\* coordinator's error Response, raises nothing, calls no specialist, and
\* study_plans, progress_history and user_profile are as they were.
C5_ClassificationFailureContained ==
    \A t \in Threads :
        (ClassificationRaised(t) /\ pc[t] = "done") =>
            /\ exc[t] = NoException
            /\ resp[t].status = "error"
            /\ resp[t].agent_used = "coordinator"
            /\ invoked[t] = <<>>
            /\ Len(model_calls[t]) = 1
            /\ mem[req[t].session].study_plans = pre[t].study_plans
            /\ mem[req[t].session].progress_history = pre[t].progress_history
            /\ mem[req[t].session].user_profile = pre[t].user_profile

\* C5 witness: route_request has returned after a failed classification, on
\* a session that already holds a progress entry.
C5_Witness ==
    \E t \in Threads :
        /\ req[t].op = "route_request"
        /\ ClassificationRaised(t)
        /\ pc[t] = "done"
        /\ resp[t].agent_used = "coordinator"
        /\ mem[req[t].session].progress_history # <<>>

\* The model call of the specialist thread t called has raised.
SpecialistCallRaised(t) ==
    /\ pc[t] = "done"
    /\ invoked[t] # <<>>
    /\ model_calls[t][Len(model_calls[t])].outcome = "raised"

\* C6: when the model call inside create_plan, answer_question or
\* track_progress raises, the method returns an error Response whose
\* agent_used is its own category, and raises nothing.
C6_SpecialistErrorContained ==
    \A t \in Threads :
        SpecialistCallRaised(t) =>
            /\ returned[t].exc = NoException
            /\ returned[t].resp.status = "error"
            /\ returned[t].resp.agent_used = CategoryOf(Current(t).method)
            /\ exc[t] = NoException
            /\ resp[t] = returned[t].resp

\* C6 witness: a direct track_progress call has failed in its model call,
\* after a create_plan call that failed the same way.
C6_Witness ==
    \E t \in Threads :
        /\ req[t].op = "track_progress"
        /\ SpecialistCallRaised(t)
        /\ resp[t].status = "error"
        /\ resp[t].agent_used = "progress_tracker"
        /\ \E s \in Sessions : \E k \in 1..Len(planLog[s]) :
              /\ planLog[s][k].resp.status = "error"
              /\ planLog[s][k].resp.agent_used = "study_planner"


\* No request is under way.
Quiescent == \A t \in Threads : Free(t)

\* C7 as stated: after N create_plan calls on a session len(study_plans) is
\* N and the k-th call returned plan_id = k-1.
C7_EveryCallAppends ==
    \A s \in Sessions :
        Quiescent =>
            /\ Len(mem[s].study_plans) = Len(planLog[s])
            /\ \A k \in 1..Len(planLog[s]) :
                  /\ "plan_id" \in DOMAIN planLog[s][k].resp
                  /\ planLog[s][k].resp.plan_id = k - 1

PlanSucceeded(call) == call.resp.status = "success"

\* The create_plan calls on session s that returned status=success, in order.
SuccessfulPlans(s) == SelectSeq(planLog[s], PlanSucceeded)

\* C7 amended: after N create_plan calls on a freshly constructed session
\* memory, made one at a time, len(study_plans) is the number of calls that
\* returned success, and the k-th successful call returned plan_id = k-1.
C7_SuccessfulCallsAppend ==
    \A s \in Sessions :
        Quiescent =>
            /\ Len(mem[s].study_plans) = Len(SuccessfulPlans(s))
            /\ \A k \in 1..Len(SuccessfulPlans(s)) :
                  SuccessfulPlans(s)[k].resp.plan_id = k - 1

\* C7 witness: two create_plan calls on one session have succeeded, the
\* second with plan_id 1.
C7_Witness ==
    \E s \in Sessions :
        /\ Quiescent
        /\ Len(SuccessfulPlans(s)) = 2
        /\ SuccessfulPlans(s)[2].resp.plan_id = 1
        /\ Len(mem[s].study_plans) = 2

\* Thread t's request has called (or is in) the specialist method.
InMethod(t, method) == invoked[t] # <<>> /\ Current(t).method = method

\* C8: a track_progress call appends exactly one entry {timestamp, update =
\* the input} to progress_history before its model call is answered, and on
\* success total_progress_entries is the length after that append and
\* progress_recorded is true.
C8_TrackerOrdering ==
    \A t \in Threads :
        InMethod(t, "track_progress") =>
            LET h == mem[Current(t).session].progress_history
                n == Len(pre[t].progress_history)
            IN  /\ pc[t] = "track_entry" =>
                      /\ h = pre[t].progress_history
                      /\ \A i \in 1..Len(model_calls[t]) :
                            model_calls[t][i].caller # "progress_tracker"
                /\ pc[t] # "track_entry" =>
                      /\ Len(h) = n + 1
                      /\ SubSeq(h, 1, n) = pre[t].progress_history
                      /\ DOMAIN h[n + 1] = {"timestamp", "update"}
                      /\ h[n + 1].update = req[t].user_input
                /\ pc[t] = "track_call" =>
                      model_calls[t][Len(model_calls[t])] = Pending("progress_tracker")
                /\ (pc[t] = "done" /\ returned[t].resp.status = "success") =>
                      /\ resp[t].total_progress_entries = n + 1
                      /\ resp[t].progress_recorded = TRUE

\* C8 witness: the second track_progress call on a session has succeeded and
\* reports two entries.
C8_Witness ==
    \E t \in Threads :
        /\ InMethod(t, "track_progress")
        /\ pc[t] = "done"
        /\ resp[t].status = "success"
        /\ resp[t].total_progress_entries = 2
        /\ Len(mem[req[t].session].progress_history) = 2

\* C9: when the model call inside track_progress raises, the Response is an
\* error and the entry appended before the call is still in progress_history.
C9_TrackerEntryRetained ==
    \A t \in Threads :
        (SpecialistCallRaised(t) /\ InMethod(t, "track_progress")) =>
            LET h == mem[Current(t).session].progress_history
                n == Len(pre[t].progress_history)
            IN  /\ resp[t].status = "error"
                /\ Len(h) = n + 1
                /\ h[n + 1].update = req[t].user_input

\* C9 witness: a track_progress call has failed and its entry is the
\* session's only one.
C9_Witness ==
    \E t \in Threads :
        /\ SpecialistCallRaised(t)
        /\ InMethod(t, "track_progress")
        /\ resp[t].status = "error"
        /\ pre[t].progress_history = <<>>
        /\ Len(mem[req[t].session].progress_history) = 1

\* C10: create_plan writes to the session memory only after its model call
\* has returned: while the call is pending and after it has raised,
\* study_plans and user_profile are as they were, and the error Response
\* has no plan_id.
C10_PlannerWritesAfterSuccess ==
    \A t \in Threads :
        InMethod(t, "create_plan") =>
            /\ (pc[t] = "plan_call" \/ SpecialistCallRaised(t)) =>
                  /\ mem[Current(t).session].study_plans = pre[t].study_plans
                  /\ mem[Current(t).session].user_profile = pre[t].user_profile
            /\ SpecialistCallRaised(t) =>
                  /\ resp[t].status = "error"
                  /\ "plan_id" \notin DOMAIN resp[t]

\* C10 witness: a create_plan call whose input mentions an exam has failed
\* and the profile is still empty.
C10_Witness ==
    \E t \in Threads :
        /\ InMethod(t, "create_plan")
        /\ SpecialistCallRaised(t)
        /\ InputMentionsExam[req[t].user_input]
        /\ mem[req[t].session].user_profile = EmptyDict
        /\ mem[req[t].session].study_plans = <<>>

\* The session memory of thread t's request as it was at entry, with the entry
\* the session driver logged for the request, if it came through the driver.
AtEntry(t) ==
    IF req[t].op = "process_request"
    THEN [pre[t] EXCEPT !.conversation_history =
             Append(@, mem[req[t].session].conversation_history[Len(@) + 1])]
    ELSE pre[t]

\* C11: answer_question writes nothing: while its model call is pending,
\* after the call has returned and after it has raised, conversation_history,
\* study_plans, progress_history and user_profile of the session are what
\* they were when answer_question was called, on every call.
C11_AnswererReadOnly ==
    \A t \in Threads :
        InMethod(t, "answer_question") =>
            LET m == mem[Current(t).session]
            IN  /\ req[t].op = "answer_question" => m = pre[t]
                /\ Len(m.conversation_history) = Len(AtEntry(t).conversation_history)
                /\ m.conversation_history = AtEntry(t).conversation_history
                /\ m.study_plans = pre[t].study_plans
                /\ m.progress_history = pre[t].progress_history
                /\ m.user_profile = pre[t].user_profile

\* C11 witness: a direct answer_question call has returned success on a
\* session that holds a plan and a profile entry, and the memory is as before.
C11_Witness ==
    \E t \in Threads :
        /\ req[t].op = "answer_question"
        /\ InMethod(t, "answer_question")
        /\ pc[t] = "done"
        /\ resp[t].status = "success"
        /\ pre[t].study_plans # <<>>
        /\ pre[t].user_profile # EmptyDict
        /\ mem[req[t].session] = pre[t]

\* The inputs holding "exam" or "test" in any letter case.
ExamOrTestInputs ==
    {i \in Inputs : \E w \in {"exam", "test"} : Contains(w, Lower(i))}

\* The create_plan call of thread t has stored its plan (its model call
\* returned) and is past the profile update.
PlanStored(t) ==
    /\ InMethod(t, "create_plan")
    /\ \/ pc[t] \in {"plan_stored", "plan_return"}
       \/ pc[t] = "done" /\ returned[t].resp.status = "success"

\* C12: a successful create_plan sets user_profile["has_upcoming_exam"] to
\* true exactly when the input holds "exam" or "test" in any letter case, and
\* otherwise leaves user_profile as it was; no other key is written.
C12_ExamFlag ==
    \A t \in Threads :
        PlanStored(t) =>
            LET p == mem[Current(t).session].user_profile
            IN  /\ req[t].user_input \in ExamOrTestInputs =>
                      /\ DOMAIN p = DOMAIN pre[t].user_profile \cup {"has_upcoming_exam"}
                      /\ p["has_upcoming_exam"] = TRUE
                      /\ \A k \in DOMAIN pre[t].user_profile \ {"has_upcoming_exam"} :
                            p[k] = pre[t].user_profile[k]
                /\ req[t].user_input \notin ExamOrTestInputs =>
                      p = pre[t].user_profile

\* C12 witness: create_plan has succeeded on an empty profile with the input
\* "My EXAM" and the flag is set.
C12_Witness ==
    \E t \in Threads :
        /\ PlanStored(t)
        /\ pc[t] = "done"
        /\ req[t].user_input = "My EXAM"
        /\ pre[t].user_profile = EmptyDict
        /\ mem[req[t].session].user_profile = DictSet(EmptyDict, "has_upcoming_exam", TRUE)

\* The four fields of a SessionMemory.
MemoryFields ==
    {"conversation_history", "study_plans", "progress_history", "user_profile"}

\* m has the shape of a SessionMemory: the four fields, three lists and a
\* mapping.
WellFormedMemory(m) ==
    /\ DOMAIN m = MemoryFields
    /\ \A f \in {"conversation_history", "study_plans", "progress_history"} :
          DOMAIN m[f] = 1..Len(m[f])
    /\ DOMAIN m.user_profile \subseteq {"has_upcoming_exam"}

\* C13: in every state reached from freshly constructed session memories by
\* coordinator and specialist operations, successful or failing, each
\* session memory still has its four fields, each holding a list (or, for
\* user_profile, a mapping).
C13_FieldsAlwaysPresent ==
    \A s \in Sessions : WellFormedMemory(mem[s])

\* C13 witness: after a request through the driver that stored a plan and set
\* the profile, and a failed request, the session has its four fields.
C13_Witness ==
    \E s \in Sessions :
        /\ Quiescent
        /\ mem[s].conversation_history # <<>>
        /\ mem[s].study_plans # <<>>
        /\ mem[s].user_profile # EmptyDict
        /\ \E t \in Threads : pc[t] = "done" /\ resp[t].status = "error"
        /\ WellFormedMemory(mem[s])

\* Sequence a is a prefix of sequence b.
IsPrefix(a, b) == Len(a) <= Len(b) /\ SubSeq(b, 1, Len(a)) = a

\* Every step leaves what the three lists of every session held in place.
AppendOnlyStep ==
    \A s \in Sessions :
        /\ IsPrefix(mem[s].study_plans, mem'[s].study_plans)
        /\ IsPrefix(mem[s].progress_history, mem'[s].progress_history)
        /\ IsPrefix(mem[s].conversation_history, mem'[s].conversation_history)

\* From its start to its return a request has added at most one plan and at
\* most one progress entry to its session.
AtMostOneEach ==
    \A t \in Threads :
        req[t] # NoRequest =>
            /\ Len(mem[req[t].session].study_plans) <= Len(pre[t].study_plans) + 1
            /\ Len(mem[req[t].session].progress_history)
                   <= Len(pre[t].progress_history) + 1
            /\ IsPrefix(pre[t].study_plans, mem[req[t].session].study_plans)
            /\ IsPrefix(pre[t].progress_history, mem[req[t].session].progress_history)
            /\ IsPrefix(pre[t].conversation_history,
                        mem[req[t].session].conversation_history)

\* C14: study_plans, progress_history and conversation_history only grow at
\* the end: across any sequence of requests the earlier value of each list
\* is a prefix of the later one; and one request adds at most one entry to
\* study_plans and at most one to progress_history.
C14_AppendOnly == [][AppendOnlyStep]_vars /\ []AtMostOneEach

\* C14 witness: two requests through the driver have left two conversation
\* entries, one plan and one progress entry on one session.
C14_Witness ==
    \E s \in Sessions :
        /\ Quiescent
        /\ Len(mem[s].conversation_history) = 2
        /\ Len(mem[s].study_plans) = 1
        /\ Len(mem[s].progress_history) = 1

\* The steps in which thread t's create_plan takes the model text x and
\* appends the plan it built from it.
PlanStoredStep(t, x) ==
    /\ PlanModelReturn(t, x) => content'[t] = x
    /\ (PlanAppend(t) /\ content[t] = x) =>
          LET plans == mem'[Current(t).session].study_plans
              plan == plans[Len(plans)]
          IN  /\ Len(plans) = Len(mem[Current(t).session].study_plans) + 1
              /\ DOMAIN plan = {"created_at", "request", "plan_content", "status"}
              /\ plan.request = req[t].user_input
              /\ plan.plan_content = x
              /\ plan.status = "active"
              /\ content'[t] = x

\* The steps in which thread t's create_plan builds its Response and
\* returns it.
PlanReturnStep(t) ==
    /\ PlanResponse(t) =>
          /\ result'[t].exc = NoException
          /\ result'[t].resp.plan_id
                \in 0..(Len(mem[Current(t).session].study_plans) - 1)
    /\ PlanReturn(t) =>
          /\ returned'[t] = result[t]
          /\ DOMAIN returned'[t].resp = {"status", "agent_used", "message", "plan_id"}
          /\ returned'[t].resp.status = "success"
          /\ returned'[t].resp.agent_used = "study_planner"
          /\ returned'[t].resp.message = content[t]
          /\ returned'[t].resp.plan_id
                \in 0..(Len(mem[Current(t).session].study_plans) - 1)

\* The step in which thread t's answer_question returns for model text x.
AnswerReturnStep(t, x) ==
    AnswerModelReturn(t, x) =>
        returned'[t].resp =
            [status |-> "success", agent_used |-> "question_answerer",
             message |-> x, question |-> req[t].user_input]

\* The steps in which thread t's track_progress builds its Response for
\* model text x and returns it.
TrackReturnStep(t, x) ==
    /\ TrackModelReturn(t, x) =>
          /\ result'[t].exc = NoException
          /\ DOMAIN result'[t].resp =
                {"status", "agent_used", "message", "total_progress_entries",
                 "progress_recorded"}
          /\ result'[t].resp.status = "success"
          /\ result'[t].resp.agent_used = "progress_tracker"
          /\ result'[t].resp.message = x
          /\ result'[t].resp.total_progress_entries \in Nat
          /\ result'[t].resp.progress_recorded = TRUE
    /\ TrackReturn(t) =>
          /\ returned'[t] = result[t]
          /\ resp'[t].status = "success"
          /\ resp'[t].agent_used = "progress_tracker"
          /\ resp'[t].message = result[t].resp.message

\* C15: a specialist whose model call returned text x returns a Response with
\* status = success, agent_used = its own category and message = x as it
\* is, plus plan_id (planner), total_progress_entries and progress_recorded
\* = true (tracker), question = the input (answerer); the plan the planner
\* appended has request = the input, plan_content = x and status = active.
C15_SuccessResponseShape ==
    [][\A t \in Threads :
          /\ PlanReturnStep(t)
          /\ \A x \in ModelTexts :
                /\ PlanStoredStep(t, x)
                /\ AnswerReturnStep(t, x)
                /\ TrackReturnStep(t, x)]_vars

\* C15 witness: a create_plan call has returned success with the message
\* "Plan: read", which is also the content of the plan it stored.
C15_Witness ==
    \E t \in Threads :
        /\ InMethod(t, "create_plan")
        /\ pc[t] = "done"
        /\ returned[t].resp.status = "success"
        /\ returned[t].resp.message = "Plan: read"
        /\ LET plan == mem[req[t].session].study_plans[returned[t].resp.plan_id + 1]
           IN  /\ plan.plan_content = "Plan: read"
               /\ plan.request = req[t].user_input
               /\ plan.status = "active"

\* The replies each rule of the clean-up chain matches, by the words the
\* normalized reply holds.
PlannerRule ==
    {r \in Replies :
        \/ Contains("study_planner", Normalized[r])
        \/ Contains("study", Normalized[r]) /\ Contains("plan", Normalized[r])}
AnswererRule ==
    {r \in Replies :
        Contains("question", Normalized[r]) \/ Contains("answer", Normalized[r])}
TrackerRule ==
    {r \in Replies :
        Contains("progress", Normalized[r]) \/ Contains("track", Normalized[r])}

\* C18: the rules are tried in the order planner, answerer, tracker and the
\* first that matches decides: a reply with "study", "plan", "answer" and
\* "progress" resolves to study_planner, a reply with "track" and
\* "question" resolves to question_answerer, and a reply with "study" but
\* not "plan", or "plan" but not "study", is not resolved to study_planner.
C18_FirstMatchWins ==
    \A t \in Threads :
        Classified(t) =>
            /\ raw[t] \in PlannerRule => agent_type[t] = "study_planner"
            /\ raw[t] \in AnswererRule \ PlannerRule =>
                  agent_type[t] = "question_answerer"
            /\ raw[t] \in TrackerRule \ (PlannerRule \cup AnswererRule) =>
                  agent_type[t] = "progress_tracker"
            /\ raw[t] = "track this question" => agent_type[t] = "question_answerer"
            /\ raw[t] = "progress answer: study plan" =>
                  /\ raw[t] \in PlannerRule \cap AnswererRule \cap TrackerRule
                  /\ agent_type[t] = "study_planner"
            /\ raw[t] \in {"study", "plan ahead"} =>
                  /\ raw[t] \notin PlannerRule
                  /\ agent_type[t] # "study_planner"

\* C18 witness: the reply "track this question", which the answerer's and
\* the tracker's rule both match, has been resolved to question_answerer.
C18_Witness ==
    \E t \in Threads :
        /\ Classified(t)
        /\ raw[t] = "track this question"
        /\ raw[t] \in AnswererRule \cap TrackerRule
        /\ agent_type[t] = "question_answerer"
        /\ pc[t] = "answer_call"

\* The reply "progress answer: study plan", which all three rules match,
\* has been resolved to study_planner.
C18_PlannerBeforeAnswerer ==
    \E t \in Threads :
        /\ Classified(t)
        /\ raw[t] = "progress answer: study plan"
        /\ raw[t] \in PlannerRule \cap AnswererRule \cap TrackerRule
        /\ agent_type[t] = "study_planner"
        /\ pc[t] = "plan_call"

\* A step changes only the memory of the session whose request takes it.
OnlyOwnSessionStep ==
    \A s \in Sessions :
        mem'[s] # mem[s] => \E t \in Threads : pc'[t] # pc[t] /\ req'[t].session = s

\* The specialist call of thread t has returned status = success.
SpecialistSucceeded(t) ==
    pc[t] = "done" /\ invoked[t] # <<>> /\ returned[t].resp.status = "success"

\* The Response of a finished specialist call and its effect on the memory,
\* as the input and the memory passed to the call give them.
FromArgumentsAlone(t) ==
    LET m == mem[req[t].session]
        resp0 == returned[t].resp
    IN  /\ m.conversation_history = AtEntry(t).conversation_history
        /\ InMethod(t, "create_plan") =>
              /\ resp0.plan_id = Len(pre[t].study_plans)
              /\ Len(m.study_plans) = Len(pre[t].study_plans) + 1
              /\ m.study_plans[Len(m.study_plans)].request = req[t].user_input
              /\ m.progress_history = pre[t].progress_history
        /\ InMethod(t, "track_progress") =>
              /\ resp0.total_progress_entries = Len(pre[t].progress_history) + 1
              /\ m.study_plans = pre[t].study_plans
              /\ m.user_profile = pre[t].user_profile
        /\ InMethod(t, "answer_question") =>
              /\ resp0.question = req[t].user_input
              /\ m.study_plans = pre[t].study_plans
              /\ m.progress_history = pre[t].progress_history
              /\ m.user_profile = pre[t].user_profile

\* C17: the coordinator and the specialists keep nothing between calls: a
\* call made with one session memory never changes another session memory,
\* and the Response of a call and what it does to its memory follow from the
\* input and the memory passed to it, whatever the same specialist served
\* before.
C17_NoSharedSessionData ==
    /\ [][OnlyOwnSessionStep]_vars
    /\ [](\A t \in Threads : SpecialistSucceeded(t) => FromArgumentsAlone(t))

\* C17 witness: the planner has served session A and then a fresh session B:
\* B's plan has plan_id 0 and A's memory still holds its one plan.
C17_Witness ==
    \E t \in Threads :
        /\ SpecialistSucceeded(t)
        /\ InMethod(t, "create_plan")
        /\ req[t].session = "B"
        /\ pre[t].study_plans = <<>>
        /\ returned[t].resp.plan_id = 0
        /\ Len(SuccessfulPlans("A")) = 1
        /\ Len(mem["A"].study_plans) = 1
        /\ Len(mem["B"].study_plans) = 1

\* Thread t's request to process_request of src/main.py has returned.
MainReturned(t) == req[t].op = "main_process_request" /\ pc[t] = "done"

\* C20: process_request of src/main.py logs the input, has the coordinator
\* classify, runs the matching specialist, logs {agent, response} and
\* returns the specialist's Response: a specialist has been called, the
\* Response is a specialist's (or the coordinator's), and
\* conversation_history has grown by two entries.
C20_MainRunsPipeline ==
    \A t \in Threads :
        MainReturned(t) =>
            /\ exc[t] = NoException
            /\ model_calls[t] # <<>>
            /\ resp[t].agent_used \in valid_agents \cup {"coordinator"}
            /\ Len(mem[req[t].session].conversation_history)
                   = Len(pre[t].conversation_history) + 2

\* What process_request of src/main.py does: no model call, no specialist,
\* the error Response of its except-branch and one new conversation entry.
C20_MainAlwaysFails ==
    \A t \in Threads :
        MainReturned(t) =>
            /\ exc[t] = NoException
            /\ model_calls[t] = <<>>
            /\ invoked[t] = <<>>
            /\ resp[t] = [status |-> "error", agent_used |-> "none",
                          message |-> "An error occurred: " \o MissingArgumentsError]
            /\ Len(mem[req[t].session].conversation_history)
                   = Len(pre[t].conversation_history) + 1
            /\ mem[req[t].session].study_plans = pre[t].study_plans

\* C16: when no other request ran on the same session memory during a
\* call, a successful create_plan returns the index of the plan it appended
\* and a successful track_progress counts the entries at its start plus its
\* own; two such create_plan calls on one session never return the same
\* plan_id.  (Calls that interleave are not bound by this: see the witness.)
C16_SerializedCallsAgree ==
    \A t \in Threads :
        (SpecialistSucceeded(t) /\ ~overlap[t]) =>
            /\ InMethod(t, "create_plan") =>
                  /\ resp[t].plan_id = Len(pre[t].study_plans)
                  /\ mem[req[t].session].study_plans[resp[t].plan_id + 1].request
                         = req[t].user_input
                  /\ \A u \in Threads \ {t} :
                        (/\ SpecialistSucceeded(u) /\ ~overlap[u]
                         /\ InMethod(u, "create_plan")
                         /\ req[u].session = req[t].session)
                            => resp[u].plan_id # resp[t].plan_id
            /\ InMethod(t, "track_progress") =>
                  resp[t].total_progress_entries = Len(pre[t].progress_history) + 1

\* C16 witness: two create_plan calls on one session interleaved; both
\* returned plan_id 1, and the plan at index 1 is not the one the first
\* thread appended.
C16_Witness ==
    /\ \A t \in Threads :
          /\ SpecialistSucceeded(t)
          /\ InMethod(t, "create_plan")
          /\ req[t].session = "A"
          /\ overlap[t]
          /\ resp[t].plan_id = 1
    /\ req[1].user_input = "done"
    /\ req[2].user_input = "My EXAM"
    /\ mem["A"].study_plans[1].request = "done"
    /\ mem["A"].study_plans[2].request = "My EXAM"

\* Two track_progress calls on a fresh session interleaved and the one that
\* returned reports two entries, the other call's included.
C16_TrackerRace ==
    \E t \in Threads :
        /\ SpecialistSucceeded(t)
        /\ InMethod(t, "track_progress")
        /\ overlap[t]
        /\ pre[t].progress_history = <<>>
        /\ resp[t].total_progress_entries = 2

\* Two calls on one session interleaved between the timestamp and the
\* append: the entry stamped later stands first in the list.
C16_StampedOutOfOrder ==
    \/ /\ Len(mem["A"].study_plans) = 2
       /\ mem["A"].study_plans[1].created_at > mem["A"].study_plans[2].created_at
    \/ /\ Len(mem["A"].progress_history) = 2
       /\ mem["A"].progress_history[1].timestamp
             > mem["A"].progress_history[2].timestamp

\* Two create_plan calls on one session interleaved between the reading of
\* the list's length and the return: the call that returned first has the
\* higher plan_id.
C16_ReturnedOutOfOrder ==
    /\ Len(planLog["A"]) = 2
    /\ planLog["A"][1].resp.status = "success"
    /\ planLog["A"][2].resp.status = "success"
    /\ planLog["A"][1].resp.plan_id > planLog["A"][2].resp.plan_id

\* Two track_progress calls on a fresh session interleaved between the
\* reading of the list's length and the return: one call has returned the
\* total 2 and the other is about to return the total 1 it read earlier.
C16_StaleTotalReturnedLate ==
    \E t, u \in Threads :
        /\ InMethod(t, "track_progress") /\ InMethod(u, "track_progress")
        /\ req[t].session = req[u].session
        /\ pc[u] = "done" /\ resp[u].status = "success"
        /\ resp[u].total_progress_entries = 2
        /\ pc[t] = "track_return"
        /\ result[t].resp.total_progress_entries = 1

\* A request has at most one classification call and one specialist call
\* behind it, no Response while it runs, and one Response and no exception
\* once it has returned.
OneResponse ==
    \A t \in Threads :
        /\ Len(invoked[t]) <= 1
        /\ Len(model_calls[t]) <= Len(invoked[t]) + (IF Routed(t) THEN 1 ELSE 0)
        /\ ~Free(t) => resp[t] = NoResponse /\ exc[t] = NoException
        /\ pc[t] = "done" =>
              /\ exc[t] = NoException
              /\ resp[t].status \in {"success", "error"}
              /\ \A k \in 1..Len(model_calls[t]) :
                    model_calls[t][k].outcome # "pending"

\* A request that has returned takes no further step: its thread moves again
\* only when a caller makes a new request.
ReturnIsFinal ==
    \A t \in Threads :
        (pc[t] = "done" /\ nreq' = nreq) =>
            /\ pc'[t] = "done"
            /\ resp'[t] = resp[t]
            /\ model_calls'[t] = model_calls[t]
            /\ invoked'[t] = invoked[t]

\* C19: provided each model call eventually returns or raises, every request
\* made eventually returns; it returns exactly one Response after at most
\* one classification call and one specialist call, with no retry and no
\* second dispatch, and a Response with status = error is final.
C19_EveryRequestReturns ==
    /\ \A t \in Threads : (~Free(t)) ~> (pc[t] = "done")
    /\ []OneResponse
    /\ [][ReturnIsFinal]_vars

\* C19 witness: a routed request has returned the planner's error Response
\* after two model calls, both answered.
C19_Witness ==
    \E t \in Threads :
        /\ Routed(t)
        /\ pc[t] = "done"
        /\ resp[t].status = "error"
        /\ resp[t].agent_used = "study_planner"
        /\ Len(model_calls[t]) = 2
        /\ model_calls[t][1].outcome = "returned"
        /\ model_calls[t][2].outcome = "raised"

\* The number of create_plan calls before the k-th on session s that
\* returned status = success.
SuccessesBefore(s, k) ==
    Cardinality({j \in 1..(k - 1) : PlanSucceeded(planLog[s][j])})

\* C21: over any sequence of planner, answerer and tracker calls made one at
\* a time on a session, model failures included, each successful
\* create_plan returns as plan_id the number of successful create_plan calls
\* before it, so the plan_ids strictly increase, and the plan stored at that
\* index has the call's input as its request; failed create_plan calls have
\* no plan_id and, like the other specialists' calls, add no plan.
C21_PlanIdsCountSuccesses ==
    \A s \in Sessions :
        Quiescent =>
            /\ \A k \in 1..Len(planLog[s]) :
                  IF PlanSucceeded(planLog[s][k])
                  THEN /\ planLog[s][k].resp.plan_id = SuccessesBefore(s, k)
                       /\ planLog[s][k].resp.plan_id < Len(mem[s].study_plans)
                       /\ mem[s].study_plans[planLog[s][k].resp.plan_id + 1].request
                              = planLog[s][k].user_input
                       /\ \A j \in 1..(k - 1) :
                             PlanSucceeded(planLog[s][j]) =>
                                planLog[s][j].resp.plan_id < planLog[s][k].resp.plan_id
                  ELSE "plan_id" \notin DOMAIN planLog[s][k].resp
            /\ Len(mem[s].study_plans) = SuccessesBefore(s, Len(planLog[s]) + 1)

\* C21 witness: on one session a create_plan call failed and the next one
\* succeeded with plan_id 0, its plan being the only one stored.
C21_Witness ==
    \E s \in Sessions :
        /\ Quiescent
        /\ Len(planLog[s]) = 2
        /\ ~PlanSucceeded(planLog[s][1])
        /\ PlanSucceeded(planLog[s][2])
        /\ planLog[s][2].resp.plan_id = 0
        /\ Len(mem[s].study_plans) = 1
        /\ mem[s].study_plans[1].request = planLog[s][2].user_input

\* The process_request calls under way on session s.
UnderWay(s) == Cardinality({t \in Threads : Busy(t, s)})

\* C22: in the session driver of run.py, after any sequence of
\* process_request calls get_session_summary reports total_interactions =
\* the number of calls made (the entry is logged before routing, whatever
\* the outcome), study_plans_created = the number of calls that returned a
\* planner's success and progress_entries = the number of calls dispatched
\* to the tracker, failed ones included.
C22_SummaryCounts ==
    \A s \in Sessions :
        /\ GetSessionSummary(mem[s]).total_interactions
               = driverLog[s].requests + UnderWay(s)
        /\ Quiescent =>
              GetSessionSummary(mem[s]) =
                 [total_interactions |-> driverLog[s].requests,
                  study_plans_created |-> driverLog[s].planned,
                  progress_entries |-> driverLog[s].tracked]

\* C22 witness: after a request that stored a plan and a request whose
\* tracker call failed, the summary of the session reads 2, 1, 1.
C22_Witness ==
    \E s \in Sessions :
        /\ Quiescent
        /\ \E t \in Threads :
              /\ req[t].op = "process_request" /\ req[t].session = s
              /\ resp[t].status = "error"
              /\ resp[t].agent_used = "progress_tracker"
        /\ GetSessionSummary(mem[s]) =
              [total_interactions |-> 2, study_plans_created |-> 1,
               progress_entries |-> 1]

\* Thread t's route_request call has returned after its classification call
\* returned a reply and the dispatch raised.
DispatchRaised(t) ==
    /\ req[t].op = "route_request"
    /\ pc[t] = "done"
    /\ ClassificationReturned(t)
    /\ Len(model_calls[t]) = 1

\* C23: route_request lets no exception out: when the resolved category is
\* not in the agents mapping, or the specialist called raises outside its
\* own try block (track_progress on a memory without progress_history), the
\* caller gets a Response with status = error and agent_used = coordinator,
\* as it does when the classification call fails.
C23_DispatchFailureContained ==
    \A t \in Threads :
        (req[t].op = "route_request" /\ pc[t] = "done") =>
            /\ exc[t] = NoException
            /\ resp[t].status \in {"success", "error"}
            /\ DispatchRaised(t) =>
                  /\ resp[t].status = "error"
                  /\ resp[t].agent_used = "coordinator"
                  /\ \/ invoked[t] = <<>>
                        /\ \E k \in valid_agents \ DOMAIN passed[t] :
                              resp[t].message =
                                 "Unable to route request: " \o KeyErrorText(k)
                     \/ /\ Len(invoked[t]) = 1
                        /\ returned[t].exc # NoException
                        /\ resp[t].message =
                              "Unable to route request: " \o returned[t].exc
            /\ (invoked[t] # <<>> /\ returned[t].exc # NoException) =>
                  resp[t].agent_used = "coordinator"

\* C23 witness: the tracker, called on a session memory without
\* progress_history, raised KeyError and route_request returned the
\* coordinator's error Response.
C23_Witness ==
    \E t \in Threads :
        /\ DispatchRaised(t)
        /\ "progress_history" \notin DOMAIN mem[req[t].session]
        /\ InMethod(t, "track_progress")
        /\ returned[t] = Raised(KeyErrorText("progress_history"))
        /\ exc[t] = NoException
        /\ resp[t] = [status |-> "error", agent_used |-> "coordinator",
                      message |-> "Unable to route request: 'progress_history'"]

\* The lookup of a category the agents mapping lacks has raised KeyError and
\* route_request returned the coordinator's error Response.
C23_MissingAgent ==
    \E t \in Threads :
        /\ DispatchRaised(t)
        /\ invoked[t] = <<>>
        /\ "progress_tracker" \notin DOMAIN passed[t]
        /\ resp[t] = [status |-> "error", agent_used |-> "coordinator",
                      message |-> "Unable to route request: 'progress_tracker'"]

\* C24: a routed request makes its classification call first and exactly
\* once; a specialist's model call is made only after the classification
\* call has returned, and at most once; if the classification call raises
\* there is none, so a returned request has made one model call when
\* classification failed and two otherwise; and the tracker's entry is not
\* yet in progress_history while the classification call is pending and is
\* there when the tracker's model call is made.
C24_ModelCallOrdering ==
    \A t \in Threads :
        (Routed(t) /\ req[t].op # "none") =>
            LET calls == model_calls[t]
                h == mem[req[t].session].progress_history
            IN  /\ Len(calls) \in {1, 2}
                /\ calls[1].caller = "coordinator"
                /\ Len(calls) = 2 =>
                      /\ calls[1].outcome = "returned"
                      /\ calls[2].caller \in valid_agents
                      /\ calls[2].caller = CategoryOf(Current(t).method)
                /\ calls[1].outcome = "pending" =>
                      /\ Len(calls) = 1
                      /\ invoked[t] = <<>>
                      /\ h = pre[t].progress_history
                /\ calls[1].outcome = "raised" =>
                      /\ Len(calls) = 1
                      /\ invoked[t] = <<>>
                      /\ pc[t] = "done"
                /\ (pc[t] = "done" /\ calls[1].outcome = "returned") =>
                      /\ Len(calls) = 2
                      /\ calls[2].outcome \in {"returned", "raised"}
                /\ (InMethod(t, "track_progress") /\ pc[t] = "track_entry") =>
                      /\ calls = <<[caller |-> "coordinator",
                                    outcome |-> "returned"]>>
                      /\ h = pre[t].progress_history
                /\ (InMethod(t, "track_progress") /\ pc[t] # "track_entry") =>
                      /\ Len(calls) = 2
                      /\ Len(h) = Len(pre[t].progress_history) + 1
                      /\ pc[t] = "track_call" => calls[2].outcome = "pending"

\* C24 witness: a request through the driver has been classified for the
\* tracker: the classification call has returned, the tracker's entry is in
\* progress_history and the tracker's model call is pending.
C24_Witness ==
    \E t \in Threads :
        /\ req[t].op = "process_request"
        /\ pc[t] = "track_call"
        /\ model_calls[t] = <<[caller |-> "coordinator", outcome |-> "returned"],
                              Pending("progress_tracker")>>
        /\ pre[t].progress_history = <<>>
        /\ Len(mem[req[t].session].progress_history) = 1
        /\ mem[req[t].session].progress_history[1].update = req[t].user_input

====
